---------------------------- MODULE Spec2Model ----------------------------
(***************************************************************************)
(* Model of the i18n build plugin of src/src/vite.ts: the closure state    *)
(* created by i18nPlugin(options), its hooks configResolved, buildStart,   *)
(* load and generateBundle, and the state module that load() generates     *)
(* (setDefaultLocale, setLocaleGetter, getLocale).                         *)
(*                                                                         *)
(* Strings that the code takes apart (locale codes, matched by a regular   *)
(* expression and spliced into names and paths) are sequences of           *)
(* one-character strings; undefined is the sequence Undefined, which no    *)
(* string equals.                                                          *)
(***************************************************************************)
EXTENDS Naturals, Sequences, FiniteSets

VARIABLES
    options,        \* the argument of i18nPlugin
    locales,        \* const locales        (line 36)
    defaultLocale,  \* const defaultLocale  (line 37)
    localeNames,    \* const localeNames    (line 38), a plain object
    shouldInline,   \* let shouldInline     (line 41)
    translations,   \* let translations     (line 42)
    pluralKeys,     \* let pluralKeys       (line 43)
    config,         \* the resolved config handed to configResolved
    disk,           \* the locale files of localesDirAbs, by locale code
    dirExists,      \* whether localesDirAbs exists
    written,        \* the locale files written by the running buildStart
    pc,             \* position of buildStart
    i,              \* index of the for loop of buildStart (1-based)
    data,           \* buildStart's local  data
    fallbacks,      \* buildStart's local  fallbacks, a plain object
    follow,         \* buildStart's local  follow
    error,          \* the Error buildStart threw
    modules,        \* what load() returned for each virtual module
    bundleIn,       \* the bundle as it was when generateBundle was entered
    emitted,        \* the files handed to this.emitFile
    emitCalls,      \* the number of this.emitFile calls
    state           \* the evaluated state module

vars == <<options, locales, defaultLocale, localeNames, shouldInline,
          translations, pluralKeys, config, disk, dirExists, written, pc, i,
          data, fallbacks, follow, error, modules, bundleIn, emitted,
          emitCalls, state>>

-----------------------------------------------------------------------------
(* Bounds of the model *)

\* longest configured locale list
MaxLocales == 3

-----------------------------------------------------------------------------
(* JavaScript values *)

\* undefined, among values that are otherwise strings
Undefined == <<"undefined">>

Lower == {"a","b","c","d","e","f","g","h","i","j","k","l","m",
          "n","o","p","q","r","s","t","u","v","w","x","y","z"}
Upper == {"A","B","C","D","E","F","G","H","I","J","K","L","M",
          "N","O","P","Q","R","S","T","U","V","W","X","Y","Z"}

\* Properties every plain object ({} or an object literal) inherits from
\* Object.prototype; obj[key] finds them when obj has no own property key.
ObjectPrototype == {<<"c","o","n","s","t","r","u","c","t","o","r">>}

\* undefined, among values that are otherwise lists of strings
UndefinedList == <<Undefined>>

\* The value of an inherited property (a function: truthy, no locale)
Inherited == <<"function">>

\* obj[key] on a plain object whose own properties are the function own.
Get(own, key) ==
    IF key \in DOMAIN own THEN own[key]
    ELSE IF key \in ObjectPrototype THEN Inherited
    ELSE Undefined

\* obj[key] = value
Put(own, key, value) ==
    [k \in DOMAIN own \cup {key} |-> IF k = key THEN value ELSE own[k]]

EmptyObject == [k \in {} |-> Undefined]

\* JavaScript truthiness of the values of the model
Truthy(v) == v # Undefined /\ v # <<>>

-----------------------------------------------------------------------------
(* Locale codes *)

\* The pattern with the i flag: letters of either case in both groups
MatchLocaleIgnoreCase(locale) ==
    LET Letter == Lower \cup Upper
    IN  IF /\ Len(locale) = 2
           /\ locale[1] \in Letter /\ locale[2] \in Letter
        THEN [ok |-> TRUE, g1 |-> locale, g3 |-> Undefined]
        ELSE IF /\ Len(locale) = 5
                /\ locale[1] \in Letter /\ locale[2] \in Letter
                /\ locale[3] \in {"_", "-"}
                /\ locale[4] \in Letter /\ locale[5] \in Letter
        THEN [ok |-> TRUE, g1 |-> SubSeq(locale, 1, 2),
              g3 |-> SubSeq(locale, 4, 5)]
        ELSE [ok |-> FALSE, g1 |-> Undefined, g3 |-> Undefined]

\* /^([a-z]{2})([_-]([A-Z]{2}))?$/.exec(locale): the match with its groups 1
\* and 3, or no match.
MatchLocale(locale) ==
    IF /\ Len(locale) = 2
       /\ locale[1] \in Lower /\ locale[2] \in Lower
    THEN [ok |-> TRUE, g1 |-> locale, g3 |-> Undefined]
    ELSE IF /\ Len(locale) = 5
            /\ locale[1] \in Lower /\ locale[2] \in Lower
            /\ locale[3] \in {"_", "-"}
            /\ locale[4] \in Upper /\ locale[5] \in Upper
    THEN [ok |-> TRUE, g1 |-> SubSeq(locale, 1, 2), g3 |-> SubSeq(locale, 4, 5)]
    ELSE [ok |-> FALSE, g1 |-> Undefined, g3 |-> Undefined]

\* match[3] ? `${match[1]} (${match[3]})` : locale
DefaultName(locale) ==
    LET match == MatchLocale(locale)
    IN  IF match.g3 # Undefined
        THEN match.g1 \o <<" ", "(">> \o match.g3 \o <<")">>
        ELSE locale

en == <<"e","n">>
nl == <<"n","l">>
ptBR == <<"p","t","_","B","R">>
EN == <<"E","N">>

\* The locale codes configurations are drawn from: three that match the
\* pattern (one with a region) and one that does not.
LocaleUniverse == {en, nl, ptBR, EN}

\* The codes a locale file can exist for
FileCodes == {c \in LocaleUniverse : MatchLocale(c).ok}

Range(s) == {s[j] : j \in 1..Len(s)}

\* The lists of at most n elements of S, each element listed once
RECURSIVE ListsUpTo(_, _)
ListsUpTo(S, n) ==
    IF n = 0 THEN {<<>>}
    ELSE LET shorter == ListsUpTo(S, n - 1)
         IN  shorter \cup
             UNION {{Append(s, x) : x \in S \ Range(s)} :
                      s \in {t \in shorter : Len(t) = n - 1}}

LocaleLists == ListsUpTo(LocaleUniverse, MaxLocales)

-----------------------------------------------------------------------------
(* Locale files *)

Keys == {"hello"}

\* Translation values as the code tells them apart: typeof and truthiness.
StringValue == [type |-> "string", truthy |-> TRUE]
ObjectValue == [type |-> "object", truthy |-> TRUE]
NullValue == [type |-> "object", truthy |-> FALSE]
TrValues == {StringValue, ObjectValue, NullValue}

\* data.translations: the keys present with their values
TranslationSets == UNION {[K -> TrValues] : K \in SUBSET Keys}

\* The parsed content of a well-formed locale file
FileOf(c, n, f, t) ==
    [exists |-> TRUE, locale |-> c, name |-> n, fallback |-> f,
     translations |-> t]

\* No file at that path: fs.existsSync(localeFile) is false
Absent ==
    [exists |-> FALSE, locale |-> Undefined, name |-> Undefined,
     fallback |-> Undefined, translations |-> EmptyObject]

SomeName == <<"N">>

\* The locale files of the buildStart specification: absent, with a locale field
\* that is not the file's code, and every combination of no fallback or a
\* fallback to a code of the universe with the translations.
RichFiles(c) ==
    {Absent, FileOf(EN, SomeName, Undefined, EmptyObject)}
    \cup {FileOf(c, Undefined, f, t) : f \in {Undefined} \cup LocaleUniverse,
                                       t \in TranslationSets}

\* The locale files of the build specifications: absent, bare, and with a
\* name, a fallback and a plural translation.
PlainFiles(c) ==
    {Absent, FileOf(c, Undefined, Undefined, EmptyObject),
     FileOf(c, SomeName, en, [k \in Keys |-> ObjectValue])}

-----------------------------------------------------------------------------
(* i18nPlugin(options) *)

NoConfig == [resolved |-> FALSE, ssr |-> FALSE, isProduction |-> FALSE]

NoError == [kind |-> "none", locale |-> Undefined]

\* The last call into the state module: the function, its argument (for
\* getLocale, what the registered getter returned), whether it raised a
\* TypeError, and what it returned.
Call(op, arg, raised, returned) ==
    [op |-> op, arg |-> arg, raised |-> raised, returned |-> returned]

NoCall == Call("none", Undefined, FALSE, Undefined)

\* No virtual module has been loaded
NoModules ==
    [locales |-> [loaded |-> FALSE, exports |-> <<>>],
     data |-> [loaded |-> FALSE, locales |-> <<>>, localeNames |-> EmptyObject],
     state |-> [loaded |-> FALSE, defaultLocale |-> Undefined]]

\* generateBundle has not run
NoBundle == [entered |-> FALSE, files |-> {}]

\* The state module has not been evaluated
NoState ==
    [evaluated |-> FALSE, localeNames |-> EmptyObject,
     defaultLocale |-> Undefined, currentLocale |-> Undefined,
     getLocale |-> "default", call |-> NoCall]

\* The closure state i18nPlugin(options) creates, with the files on disk.
Construct(opts, files, dir) ==
    /\ options = opts
    /\ locales = (IF opts.locales # UndefinedList THEN opts.locales ELSE <<en>>)
    /\ defaultLocale =
         (IF Truthy(opts.defaultLocale) THEN opts.defaultLocale
          ELSE IF Len(locales) >= 1 THEN locales[1] ELSE Undefined)
    /\ localeNames = EmptyObject
    /\ shouldInline = FALSE
    /\ translations = EmptyObject  \* unassigned until buildStart
    /\ pluralKeys = {}             \* unassigned until buildStart
    /\ config = NoConfig
    /\ disk = files
    /\ dirExists = dir
    /\ written = {}
    /\ pc = "idle"
    /\ i = 0
    /\ data = Absent
    /\ fallbacks = EmptyObject
    /\ follow = Undefined
    /\ error = NoError
    /\ modules = NoModules
    /\ bundleIn = NoBundle
    /\ emitted = {}
    /\ emitCalls = 0
    /\ state = NoState

-----------------------------------------------------------------------------
(* buildStart *)

Fail(kind, locale) ==
    /\ pc' = "failed"
    /\ error' = [kind |-> kind, locale |-> locale]

\* Lines 102-103 without the test of tr itself: typeof null is 'object'
PluralKeysOfTypeofOnly(d) ==
    {key \in DOMAIN d.translations : d.translations[key].type = "object"}

\* The keys lines 102-103 add to pluralKeys for one record
PluralKeysOf(d) ==
    {key \in DOMAIN d.translations :
       LET tr == d.translations[key]
       IN  tr.truthy /\ tr.type = "object"}

\* Lines 100-103, and the step of the for loop.
Record(locale, d) ==
    /\ localeNames' = Put(localeNames, locale, d.name)
    /\ translations' = Put(translations, locale, d)
    /\ pluralKeys' = pluralKeys \cup PluralKeysOf(d)
    /\ i' = i + 1
    /\ pc' = IF i + 1 > Len(locales) THEN "done" ELSE "loop"
    /\ error' = error

\* Lines 55-60: the directory is made, the maps are reset, the loop is entered.
BuildStartBegin ==
    /\ pc = "idle"
    /\ dirExists' = TRUE
    /\ fallbacks' = EmptyObject
    /\ translations' = EmptyObject
    /\ pluralKeys' = {}
    /\ i' = 1
    /\ pc' = IF Len(locales) = 0 THEN "done" ELSE "loop"
    /\ UNCHANGED <<options, locales, defaultLocale, localeNames, shouldInline,
                   config, disk, written, data, follow, error, modules,
                   bundleIn, emitted, emitCalls, state>>

\* One iteration of the for loop, lines 61-104, up to the while loop of
\* line 83 when the file names a configured fallback.
ProcessLocale ==
    /\ pc = "loop"
    /\ LET locale == locales[i]
           match == MatchLocale(locale)
       IN  IF ~match.ok
           THEN /\ Fail("Invalid locale", locale)
                /\ UNCHANGED <<localeNames, translations, pluralKeys, disk,
                               written, i, data, fallbacks, follow>>
           ELSE IF disk[locale].exists
           THEN LET read == disk[locale]
                    named == [read EXCEPT !.name =
                                 IF Truthy(read.name) THEN read.name
                                 ELSE DefaultName(locale)]
                IN  IF read.locale # locale
                    THEN /\ Fail("locale mismatch", locale)
                         /\ data' = read
                         /\ UNCHANGED <<localeNames, translations, pluralKeys,
                                        disk, written, i, fallbacks, follow>>
                    ELSE IF Truthy(named.fallback)
                    THEN IF named.fallback \notin Range(locales)
                         THEN /\ Fail("invalid fallback", locale)
                              /\ data' = named
                              /\ UNCHANGED <<localeNames, translations,
                                             pluralKeys, disk, written, i,
                                             fallbacks, follow>>
                         ELSE /\ pc' = "walk"
                              /\ data' = named
                              /\ follow' = Undefined
                              /\ UNCHANGED <<localeNames, translations,
                                             pluralKeys, disk, written, i,
                                             fallbacks, error>>
                    ELSE /\ Record(locale, named)
                         /\ data' = named
                         /\ UNCHANGED <<disk, written, fallbacks, follow>>
           ELSE LET made == FileOf(locale, DefaultName(locale), Undefined,
                                   EmptyObject)
                IN  /\ disk' = [disk EXCEPT ![locale] = made]
                    /\ written' = written \cup {locale}
                    /\ data' = made
                    /\ Record(locale, made)
                    /\ UNCHANGED <<fallbacks, follow>>
    /\ UNCHANGED <<options, locales, defaultLocale, shouldInline, config,
                   dirExists, modules, bundleIn, emitted, emitCalls, state>>

\* One evaluation of the while condition of line 83 with its body, and
\* line 90 when the loop is left.  Nothing the condition reads changes in
\* the body: once follow is a locale other than the current one, every
\* further evaluation finds the same.
FollowFallback ==
    /\ pc = "walk"
    /\ LET locale == locales[i]
           next == Get(fallbacks, data.fallback)
       IN  IF Truthy(next)
           THEN IF next = locale
                THEN /\ Fail("circular fallback", locale)
                     /\ follow' = next
                     /\ UNCHANGED <<localeNames, translations, pluralKeys, i,
                                    fallbacks>>
                ELSE /\ follow' = next
                     /\ UNCHANGED <<localeNames, translations, pluralKeys, i,
                                    fallbacks, pc, error>>
           ELSE /\ follow' = next
                /\ fallbacks' = Put(fallbacks, locale, data.fallback)
                /\ Record(locale, data)
    /\ UNCHANGED <<options, locales, defaultLocale, shouldInline, config,
                   disk, dirExists, written, data, modules, bundleIn, emitted,
                   emitCalls, state>>

-----------------------------------------------------------------------------
(* configResolved *)

\* !!config.build.ssr || !config.isProduction
ShouldInline(ssr, isProduction) == ssr \/ ~isProduction

ConfigResolved ==
    /\ ~config.resolved
    /\ pc = "idle"
    /\ \E ssr \in BOOLEAN, isProduction \in BOOLEAN :
         /\ config' = [resolved |-> TRUE, ssr |-> ssr,
                       isProduction |-> isProduction]
         /\ shouldInline' = ShouldInline(ssr, isProduction)
    /\ UNCHANGED <<options, locales, defaultLocale, localeNames, translations,
                   pluralKeys, disk, dirExists, written, pc, i, data,
                   fallbacks, follow, error, modules, bundleIn, emitted,
                   emitCalls, state>>

-----------------------------------------------------------------------------
(* load *)

\* The token the state module is initialised with in an inlined build
Placeholder == <<"__$LOCALE$__">>

\* '\0i18n-locales.js': the locales re-exported, in order (each from its
\* locale file), or the empty module.
LocalesModule ==
    [loaded |-> TRUE, exports |-> IF shouldInline THEN <<>> ELSE locales]

\* '\0i18n-data.js'
DataModule ==
    [loaded |-> TRUE, locales |-> locales, localeNames |-> localeNames]

\* '\0i18n-state.js': the initial value of its defaultLocale
StateModule ==
    [loaded |-> TRUE,
     defaultLocale |-> IF shouldInline THEN Placeholder ELSE defaultLocale]

\* The host loads a virtual module while it builds, after buildStart.
Load ==
    /\ pc = "done"
    /\ ~bundleIn.entered
    /\ ~state.evaluated
    /\ \E id \in {"locales", "data", "state"} :
         modules' = IF id = "locales"
                    THEN [modules EXCEPT !.locales = LocalesModule]
                    ELSE IF id = "data"
                    THEN [modules EXCEPT !.data = DataModule]
                    ELSE [modules EXCEPT !.state = StateModule]
    /\ UNCHANGED <<options, locales, defaultLocale, localeNames, shouldInline,
                   translations, pluralKeys, config, disk, dirExists, written,
                   pc, i, data, fallbacks, follow, error, bundleIn, emitted,
                   emitCalls, state>>

-----------------------------------------------------------------------------
(* generateBundle *)

Slash == <<"/">>

\* An entry of the bundle: a chunk has code, an asset has a source.  The
\* text is named, and carries the locale it was translated for.
BundleFile(fileName, kind, text, for) ==
    [fileName |-> fileName, kind |-> kind, text |-> text, for |-> for]

BundleUniverse ==
    {BundleFile(<<"a", ".", "j", "s">>, "chunk", "code of a.js", Undefined),
     BundleFile(<<"s", ".", "c", "s", "s">>, "asset", "source of s.css",
                Undefined)}

\* replaceGlobals({code, locale, translations}) of ./transform-localize:
\* the code with the locale's values substituted.
ReplaceGlobals(chunk, locale, trs) ==
    [text |-> chunk.text, for |-> locale]

\* The argument of this.emitFile for one entry of the bundle, lines 190-208
EmitFile(locale, entry) ==
    LET source == IF entry.kind = "chunk"
                  THEN ReplaceGlobals(entry, locale, translations)
                  ELSE [text |-> entry.text, for |-> entry.for]
    IN  BundleFile(locale \o Slash \o entry.fileName, "asset", source.text,
                   source.for)

\* The loops of lines 188-210 from locale j on: Object.entries(bundle) is
\* taken anew for each locale.  Whether a file handed to this.emitFile
\* shows in the host's bundle object while the hook runs (live) is the
\* host's matter.  The result is the files emitted and the number of calls.
RECURSIVE EmitAll(_, _, _, _, _)
EmitAll(j, bundle, out, calls, live) ==
    IF j > Len(locales) THEN [files |-> out, calls |-> calls]
    ELSE LET new == {EmitFile(locales[j], entry) : entry \in bundle}
         IN  EmitAll(j + 1, IF live THEN bundle \cup new ELSE bundle,
                     out \cup new, calls + Cardinality(bundle), live)

GenerateBundle ==
    /\ pc = "done"
    /\ config.resolved
    /\ ~bundleIn.entered
    /\ \E bundle \in SUBSET BundleUniverse, live \in BOOLEAN :
         /\ bundleIn' = [entered |-> TRUE, files |-> bundle]
         /\ IF ~shouldInline
            THEN UNCHANGED <<emitted, emitCalls>>
            ELSE LET result == EmitAll(1, bundle, {}, 0, live)
                 IN  /\ emitted' = result.files
                     /\ emitCalls' = result.calls
    /\ UNCHANGED <<options, locales, defaultLocale, localeNames, shouldInline,
                   translations, pluralKeys, config, disk, dirExists, written,
                   pc, i, data, fallbacks, follow, error, modules, state>>

-----------------------------------------------------------------------------
(* The generated state module, lines 143-173, in the application *)

\* What the application passes to setDefaultLocale and what a registered
\* getter returns: the codes of the universe, a name every object
\* inherits, the empty string and undefined.
RuntimeValues == LocaleUniverse \cup ObjectPrototype \cup {<<>>, Undefined}

\* _checkLocale(l): whether it throws the TypeError
CheckLocaleThrows(names, l) == ~Truthy(Get(names, l))

\* The module is evaluated once the build has produced it and the data
\* module it imports.  In an inlined build its defaultLocale is the
\* placeholder, which stands for a locale only in the translated copies.
EvalStateModule ==
    /\ modules.state.loaded /\ modules.data.loaded
    /\ modules.state.defaultLocale # Placeholder
    /\ ~state.evaluated
    /\ state' = [evaluated |-> TRUE,
                 localeNames |-> modules.data.localeNames,
                 defaultLocale |-> modules.state.defaultLocale,
                 currentLocale |-> modules.state.defaultLocale,
                 getLocale |-> "default",
                 call |-> NoCall]
    /\ UNCHANGED <<options, locales, defaultLocale, localeNames, shouldInline,
                   translations, pluralKeys, config, disk, dirExists, written,
                   pc, i, data, fallbacks, follow, error, modules, bundleIn,
                   emitted, emitCalls>>

SetDefaultLocale ==
    /\ state.evaluated
    /\ \E l \in RuntimeValues :
         IF CheckLocaleThrows(state.localeNames, l)
         THEN state' = [state EXCEPT
                          !.call = Call("setDefaultLocale", l, TRUE, Undefined)]
         ELSE state' = [state EXCEPT
                          !.defaultLocale = l,
                          !.call = Call("setDefaultLocale", l, FALSE, Undefined)]
    /\ UNCHANGED <<options, locales, defaultLocale, localeNames, shouldInline,
                   translations, pluralKeys, config, disk, dirExists, written,
                   pc, i, data, fallbacks, follow, error, modules, bundleIn,
                   emitted, emitCalls>>

\* setLocaleGetter(fn): getLocale becomes the checking wrapper of fn.
SetLocaleGetter ==
    /\ state.evaluated
    /\ state' = [state EXCEPT
                   !.getLocale = "custom",
                   !.call = Call("setLocaleGetter", Undefined, FALSE, Undefined)]
    /\ UNCHANGED <<options, locales, defaultLocale, localeNames, shouldInline,
                   translations, pluralKeys, config, disk, dirExists, written,
                   pc, i, data, fallbacks, follow, error, modules, bundleIn,
                   emitted, emitCalls>>

\* getLocale(): the initial one returns defaultLocale; the wrapper calls
\* fn, which returns r.
GetLocale ==
    /\ state.evaluated
    /\ IF state.getLocale = "default"
       THEN state' = [state EXCEPT
                        !.call = Call("getLocale", Undefined, FALSE,
                                      state.defaultLocale)]
       ELSE \E r \in RuntimeValues :
              LET l == IF Truthy(r) THEN r ELSE state.defaultLocale
              IN  IF CheckLocaleThrows(state.localeNames, l)
                  THEN state' = [state EXCEPT
                                   !.call = Call("getLocale", r, TRUE, Undefined)]
                  ELSE state' = [state EXCEPT
                                   !.currentLocale = l,
                                   !.call = Call("getLocale", r, FALSE, l)]
    /\ UNCHANGED <<options, locales, defaultLocale, localeNames, shouldInline,
                   translations, pluralKeys, config, disk, dirExists, written,
                   pc, i, data, fallbacks, follow, error, modules, bundleIn,
                   emitted, emitCalls>>

-----------------------------------------------------------------------------
(* Specification of buildStart alone, over the rich locale files *)

\* The directories the configured locales' files are drawn from;
\* the file of a code that is not configured is never read, and is absent.
RECURSIVE DisksOver(_, _, _)
DisksOver(codes, list, rich) ==
    IF codes = {} THEN {EmptyObject}
    ELSE LET c == CHOOSE x \in codes : TRUE
         IN  {Put(d, c, f) : d \in DisksOver(codes \ {c}, list, rich),
                             f \in IF c \notin Range(list) THEN {Absent}
                                   ELSE IF rich THEN RichFiles(c)
                                   ELSE PlainFiles(c)}

InitLoad ==
    \E list \in LocaleLists :
      \E files \in DisksOver(FileCodes, list, TRUE) :
        \E dir \in {TRUE} \cup {e \in {FALSE} : \A c \in FileCodes : ~files[c].exists} :
          Construct([locales |-> list, defaultLocale |-> Undefined], files, dir)

NextLoad == BuildStartBegin \/ ProcessLocale \/ FollowFallback

SpecLoad == InitLoad /\ [][NextLoad]_vars

-----------------------------------------------------------------------------
(* Specification of a build: the hooks in the host's order, over plain     *)
(* locale files and every plugin option                                    *)

DefaultLocaleOptions == {Undefined, en, ptBR}

\* The locales option: not given, or a list of at least one locale
LocalesOptions == (LocaleLists \ {<<>>}) \cup {UndefinedList}

Init ==
    \E list \in LocalesOptions, def \in DefaultLocaleOptions :
      \E files \in DisksOver(FileCodes,
                              IF list = UndefinedList THEN <<en>> ELSE list,
                              FALSE) :
        Construct([locales |-> list, defaultLocale |-> def], files, TRUE)

Next ==
    \/ ConfigResolved
    \/ config.resolved /\ BuildStartBegin
    \/ ProcessLocale
    \/ FollowFallback
    \/ Load
    \/ GenerateBundle

Spec == Init /\ [][Next]_vars

-----------------------------------------------------------------------------
(* Specification of the generated state module: a build, and then the      *)
(* application calling into the module                                     *)

NextState ==
    \/ ConfigResolved
    \/ config.resolved /\ BuildStartBegin
    \/ ProcessLocale
    \/ FollowFallback
    \/ Load
    \/ EvalStateModule
    \/ SetDefaultLocale
    \/ SetLocaleGetter
    \/ GetLocale

SpecState == Init /\ [][NextState]_vars

-----------------------------------------------------------------------------
(* What the claims speak of *)

Configured == Range(locales)

\* The strings of ^[a-z]{2}([_-][A-Z]{2})?$
MatchesPattern(l) ==
    \/ Len(l) = 2 /\ l \in Lower \X Lower
    \/ Len(l) = 5 /\ l \in Lower \X Lower \X {"_", "-"} \X Upper \X Upper

\* The fallback the locale file of l names, if there is one
FallbackOf(l) ==
    IF l \in DOMAIN disk /\ disk[l].exists /\ Truthy(disk[l].fallback)
    THEN disk[l].fallback
    ELSE Undefined

\* The locale n fallback steps after l
RECURSIVE After(_, _)
After(l, n) ==
    IF n = 0 \/ l = Undefined THEN l ELSE After(FallbackOf(l), n - 1)

\* A configured locale is its own fallback after one step or more
HasFallbackCycle ==
    \E l \in Configured : \E n \in 1..Cardinality(Configured) : After(l, n) = l

\* Valid codes, and files whose locale field and fallback are in order
WellFormed ==
    \A l \in Configured :
      /\ MatchesPattern(l)
      /\ l \in DOMAIN disk
      /\ disk[l].exists =>
           /\ disk[l].locale = l
           /\ Truthy(disk[l].fallback) => disk[l].fallback \in Configured

\* The while loop of line 83 has found a follow that is not the current
\* locale: its condition stays true for ever
Spinning == pc = "walk" /\ Truthy(follow)

HasInvalidCode == \E l \in Configured : ~MatchesPattern(l)

\* The place of the first code of the list that does not match the pattern
FirstInvalid ==
    CHOOSE j \in 1..Len(locales) :
      /\ ~MatchesPattern(locales[j])
      /\ \A k \in 1..(j - 1) : MatchesPattern(locales[k])

\* The keys whose value is an object (not null, not a scalar) in the file
\* of at least one configured locale
PluralInSomeLocale ==
    {key \in Keys :
       \E l \in Configured :
         /\ l \in DOMAIN disk
         /\ key \in DOMAIN disk[l].translations
         /\ disk[l].translations[key] = ObjectValue}

\* The copy of bundle entry f the claims expect for locale l
ExpectedCopy(l, f) ==
    BundleFile(l \o Slash \o f.fileName, "asset", f.text,
               IF f.kind = "chunk" THEN l ELSE f.for)

\* l is a locale the state module does not know
UnknownLocale(l) == l # Undefined /\ l \notin DOMAIN state.localeNames

-----------------------------------------------------------------------------
(* The claims *)

\* C1: when the fallback relation of the configured locales' files has a
\* cycle (of any length, a locale that is its own fallback included),
\* buildStart fails: it never completes.
C1_CycleIsFatal == HasFallbackCycle => pc # "done"

\* C2: with valid codes, well-formed files and an acyclic fallback relation
\* buildStart terminates and succeeds: it does not throw, and the walk of
\* the fallback chain never loops for ever.
C2_AcyclicLoadSucceeds ==
    (WellFormed /\ ~HasFallbackCycle) => (pc # "failed" /\ ~Spinning)

\* C3: in a static client production build (build.ssr false, isProduction
\* true) generateBundle emits, for every configured locale and every file
\* of the bundle, a file at <locale>/<originalPath>.
C3_ClientBuildEmitsCopies ==
    (bundleIn.entered /\ ~config.ssr /\ config.isProduction) =>
      \A l \in Configured : \A f \in bundleIn.files :
        \E e \in emitted : e.fileName = l \o Slash \o f.fileName

\* C4: when shouldInline is true generateBundle emits exactly one copy per
\* configured locale of each file the bundle held at hook entry, at
\* <locale>/<fileName>, and nothing else; when it is false it emits nothing.
C4_ExactlyOneCopyPerLocale ==
    bundleIn.entered =>
      IF shouldInline
      THEN /\ emitted = {ExpectedCopy(l, f) : l \in Configured,
                                              f \in bundleIn.files}
           /\ emitCalls = Len(locales) * Cardinality(bundleIn.files)
      ELSE emitted = {} /\ emitCalls = 0

\* C5: the locales module of a server (SSR) build holds one re-export per
\* configured locale, and that of a client build is empty.
C5_LocalesModuleByBuildKind ==
    modules.locales.loaded =>
      modules.locales.exports = (IF config.ssr THEN locales ELSE <<>>)

\* C6: setDefaultLocale(l) with a locale l that is no key of localeNames
\* raises a TypeError, and so does getLocale() when the registered getter
\* returns such a locale.
C6_UnknownLocaleRaises ==
    (/\ state.call.op \in {"setDefaultLocale", "getLocale"}
     /\ UnknownLocale(state.call.arg)) => state.call.raised

\* C7: after a successful buildStart a key is in pluralKeys if and only if
\* its value is an object in the file of at least one configured locale,
\* whatever the order of the locale list.
C7_PluralKeysOfAnyLocale == pc = "done" => pluralKeys = PluralInSomeLocale

\* C7 witness: a build that succeeded, with a key that is an object in the
\* file of a locale loaded before one where it is a string.
C7_Witness ==
    /\ pc = "done"
    /\ "hello" \in pluralKeys
    /\ \E a, b \in 1..Len(locales) :
         /\ a < b
         /\ disk[locales[a]].translations = [k \in Keys |-> ObjectValue]
         /\ disk[locales[b]].translations = [k \in Keys |-> StringValue]

\* C8 as stated: codes that match the pattern are accepted, and whenever
\* the list holds a code that does not match, a buildStart that fails has
\* failed with 'Invalid locale' naming a code that does not match.
C8_InvalidCodeAlwaysNamed ==
    /\ error.kind = "Invalid locale" => ~MatchesPattern(error.locale)
    /\ (HasInvalidCode /\ pc = "failed") =>
         (error.kind = "Invalid locale" /\ ~MatchesPattern(error.locale))

\* C8 amended: buildStart never raises 'Invalid locale' for a code that
\* matches the pattern; with a code in the list that does not match it
\* never succeeds and never gets past the first such code; and a failure
\* at that code is 'Invalid locale' naming it.
C8_FirstInvalidCodeNamed ==
    /\ error.kind = "Invalid locale" => ~MatchesPattern(error.locale)
    /\ HasInvalidCode =>
         /\ pc # "done"
         /\ i <= FirstInvalid
         /\ (pc = "failed" /\ i = FirstInvalid) =>
              error = [kind |-> "Invalid locale",
                       locale |-> locales[FirstInvalid]]

\* C8 witness: buildStart has loaded two locales from their files and has
\* failed at the third, which does not match the pattern.
C8_Witness ==
    /\ pc = "failed"
    /\ i = 3
    /\ error = [kind |-> "Invalid locale", locale |-> EN]
    /\ DOMAIN translations = {locales[1], locales[2]}
    /\ written = {}

\* C9: when buildStart throws it has written no locale file, and the
\* records map holds no locale or every configured one.
C9_NoPartialOutput ==
    pc = "failed" =>
      /\ written = {}
      /\ DOMAIN translations \in {{}, Configured}

\* C10: in a build that is not inlined, defaultLocale, currentLocale and
\* every value getLocale() returns are configured locales.
C10_LocalesAreConfigured ==
    state.evaluated =>
      /\ state.defaultLocale \in Configured
      /\ state.currentLocale \in Configured
      /\ (state.call.op = "getLocale" /\ ~state.call.raised) =>
           state.call.returned \in Configured

=============================================================================
